---- MODULE Spec2Model ----
(***************************************************************************)
(* Model of package formparser (jinn091/go-form-parser): the content-type  *)
(* router ParseFormBasedOnContentType, the three extraction strategies     *)
(* (parseJSON, parseURLEncoded, parseMultipart), validateAndRespond and    *)
(* isAllowedContentType, as written in the JSON-capable revision of the    *)
(* package.  One Config is shared by the request handlers, as the README   *)
(* usage example does.                                                     *)
(*                                                                         *)
(* Go strings whose characters matter (header values, struct field names,  *)
(* hex digests, messages) are sequences of one-character strings; names    *)
(* that are only compared for equality (form field names, file names,      *)
(* MIME types of parts) are TLA+ strings.  A byte slice is the record      *)
(* [len, fill]: len bytes, each of value fill.                             *)
(***************************************************************************)
EXTENDS Integers, Sequences, FiniteSets, TLC

(***************************************************************************)
(* Bounds of the model.                                                    *)
(***************************************************************************)
\* longest multipart body, in parts
MaxParts == 2

(***************************************************************************)
(* strings                                                                 *)
(***************************************************************************)
Upper == <<"A","B","C","D","E","F","G","H","I","J","K","L","M",
           "N","O","P","Q","R","S","T","U","V","W","X","Y","Z">>
Lower == <<"a","b","c","d","e","f","g","h","i","j","k","l","m",
           "n","o","p","q","r","s","t","u","v","w","x","y","z">>

\* strings.ToLower, one character
ToLowerChar(c) ==
    IF \E i \in 1..Len(Upper) : Upper[i] = c
    THEN Lower[CHOOSE i \in 1..Len(Upper) : Upper[i] = c]
    ELSE c

\* strings.ToLower
ToLower(s) == [i \in 1..Len(s) |-> ToLowerChar(s[i])]

\* strings.HasPrefix
HasPrefix(s, prefix) ==
    /\ Len(s) >= Len(prefix)
    /\ SubSeq(s, 1, Len(prefix)) = prefix

multipartFormData ==
    <<"m","u","l","t","i","p","a","r","t","/","f","o","r","m","-","d","a","t","a">>
applicationFormUrlencoded ==
    <<"a","p","p","l","i","c","a","t","i","o","n","/","x","-","w","w","w","-",
      "f","o","r","m","-","u","r","l","e","n","c","o","d","e","d">>
applicationJSON ==
    <<"a","p","p","l","i","c","a","t","i","o","n","/","j","s","o","n">>

boundaryX == <<";"," ","b","o","u","n","d","a","r","y","=","x">>
boundaryY == <<";"," ","b","o","u","n","d","a","r","y","=","y","y">>
charsetUTF8 == <<";"," ","c","h","a","r","s","e","t","=","u","t","f","-","8">>
textPlain == <<"t","e","x","t","/","p","l","a","i","n">>

\* the same header values as a client that does not write them in lower case
\* sends them
UpperMultipart ==
    <<"M","U","L","T","I","P","A","R","T","/","F","O","R","M","-","D","A","T","A">>
        \o boundaryX
MixedJSON ==
    <<"A","p","p","l","i","c","a","t","i","o","n","/","J","S","O","N">>
MixedFormUrlencoded ==
    <<"A","p","p","l","i","c","a","t","i","o","n","/","x","-","w","w","w","-",
      "F","o","r","m","-","U","r","l","e","n","c","o","d","e","d">>

\* a Go string whose characters the program never looks into
Str(s) == <<s>>
EmptyString == <<>>

(***************************************************************************)
(* The content router's switch (strings.HasPrefix, first match wins).      *)
(***************************************************************************)
\* the switch matching whole header values instead of prefixes
switchContentTypeExact(contentType) ==
    IF contentType = multipartFormData THEN "parseMultipart"
    ELSE IF contentType = applicationFormUrlencoded THEN "parseURLEncoded"
    ELSE IF contentType = applicationJSON THEN "parseJSON"
    ELSE "default"

switchContentType(contentType) ==
    IF HasPrefix(contentType, multipartFormData) THEN "parseMultipart"
    ELSE IF HasPrefix(contentType, applicationFormUrlencoded) THEN "parseURLEncoded"
    ELSE IF HasPrefix(contentType, applicationJSON) THEN "parseJSON"
    ELSE "default"

\* r.MultipartReader(): the media type must be multipart/form-data and carry
\* a boundary parameter
boundaryParam == <<";"," ","b","o","u","n","d","a","r","y","=">>
MultipartReaderOK(contentType) ==
    /\ HasPrefix(contentType, multipartFormData)
    /\ LET rest == SubSeq(contentType, Len(multipartFormData) + 1, Len(contentType))
       IN  /\ HasPrefix(rest, boundaryParam)
           /\ Len(rest) > Len(boundaryParam)

(***************************************************************************)
(* MIME policy and size cap of parseMultipart.                             *)
(***************************************************************************)
allowed == <<"image/jpeg", "image/png", "application/pdf">>

\* the MIME test ignoring letter case
isAllowedContentTypeFold(contentType) ==
    \E i \in 1..Len(allowed) :
        contentType = allowed[i] \/ contentType = "IMAGE/PNG"

isAllowedContentType(contentType) ==
    \E i \in 1..Len(allowed) : contentType = allowed[i]

\* const maxFileSize = 5 << 20
maxFileSize == 5242880

Min(a, b) == IF a <= b THEN a ELSE b

\* io.Copy in the place of io.CopyN: the whole part is read, whatever limit
CopyAll(part, limit) ==
    [buf |-> part.Content,
     n   |-> part.Content.len,
     err |-> IF part.ReadErr THEN "read" ELSE "nil"]

\* io.CopyN(&fileBuf, part, limit): the bytes copied, their count and the error.
\* A part whose stream breaks (part.ReadErr) delivers part.Content and then
\* the error; CopyN stops at limit bytes without reaching it.
CopyN(part, limit) ==
    LET n == Min(part.Content.len, limit)
    IN  [buf |-> [len |-> n, fill |-> part.Content.fill],
         n   |-> n,
         err |-> IF n = limit THEN "nil"
                 ELSE IF part.ReadErr THEN "read" ELSE "EOF"]

\* the size test off by one
tooLargeAtCap(n) == n >= maxFileSize

\* the test n > maxFileSize of parseMultipart
tooLarge(n) == n > maxFileSize

(***************************************************************************)
(* Digest: sha256.Sum256 abstracted to a two-byte checksum of the bytes,   *)
(* fmt.Sprintf("%x", hash) as the real hexadecimal formatting.             *)
(***************************************************************************)
Sum256(content) ==
    << (content.len + 3 * content.fill) % 256,
       (7 * content.len + 11 * content.fill + 1) % 256 >>

HexDigits == <<"0","1","2","3","4","5","6","7","8","9","a","b","c","d","e","f">>

HexByte(b) == << HexDigits[(b \div 16) + 1], HexDigits[(b % 16) + 1] >>

RECURSIVE SprintfHex(_)
SprintfHex(hash) ==
    IF hash = <<>> THEN <<>>
    ELSE HexByte(Head(hash)) \o SprintfHex(Tail(hash))

\* the UploadedFile literal with the digest of something else than Content
UploadedFileStaleHash(part, contentType, content, hash) ==
    [Filename    |-> part.FileName,
     ContentType |-> contentType,
     Content     |-> content,
     Hash        |-> SprintfHex(Sum256([len |-> 0, fill |-> 0]))]

\* the UploadedFile literal of parseMultipart
UploadedFile(part, contentType, content, hash) ==
    [Filename    |-> part.FileName,
     ContentType |-> contentType,
     Content     |-> content,
     Hash        |-> SprintfHex(hash)]

(***************************************************************************)
(* url.Values: a map from key to the sequence of its values.               *)
(***************************************************************************)
EmptyValues == [k \in {} |-> <<>>]

\* url.Values.Set in the place of Add: the value replaces those under the key
AddOverwriting(values, key, value) ==
    [k \in DOMAIN values \cup {key} |->
        IF k = key THEN <<value>> ELSE values[k]]

\* url.Values.Add
Add(values, key, value) ==
    IF key \in DOMAIN values
    THEN [values EXCEPT ![key] = Append(@, value)]
    ELSE [k \in DOMAIN values \cup {key} |->
            IF k = key THEN <<value>> ELSE values[k]]

\* an assignment that leaves the entry a key already has
MapSetKeepFirst(m, key, v) ==
    [k \in DOMAIN m \cup {key} |-> IF k \in DOMAIN m THEN m[k] ELSE v]

\* map assignment m[key] = v
MapSet(m, key, v) ==
    [k \in DOMAIN m \cup {key} |-> IF k = key THEN v ELSE m[k]]

(***************************************************************************)
(* Errors and the response writer.                                         *)
(***************************************************************************)
Err(kind, ctype, n, fields) ==
    [kind |-> kind, ctype |-> ctype, n |-> n, fields |-> fields]

NilErr == Err("nil", "", 0, <<>>)

NoFields == [k \in {} |-> <<>>]

\* a httptest.NewRecorder() nothing was written to
NewRecorder ==
    [status |-> 0, contentType |-> "", writeHeaderCalls |-> 0,
     body |-> [kind |-> "none", message |-> <<>>, fields |-> NoFields]]

\* the message written to w without http.Error: no WriteHeader call, so the
\* first Write sends the implicit 200
httpErrorImplicitOK(w, msg, code) ==
    [status           |-> IF w.writeHeaderCalls = 0 THEN 200 ELSE w.status,
     contentType      |-> "text/plain; charset=utf-8",
     writeHeaderCalls |-> w.writeHeaderCalls + 1,
     body             |-> [kind |-> "text", message |-> Str(msg), fields |-> NoFields]]

\* http.Error(w, msg, code)
httpError(w, msg, code) ==
    [status           |-> IF w.writeHeaderCalls = 0 THEN code ELSE w.status,
     contentType      |-> "text/plain; charset=utf-8",
     writeHeaderCalls |-> w.writeHeaderCalls + 1,
     body             |-> [kind |-> "text", message |-> Str(msg), fields |-> NoFields]]

(***************************************************************************)
(* The destination record: TestForm of the package's tests,                *)
(*     Name  string `form:"name"  validate:"required"`                     *)
(*     Email string `form:"email" validate:"required,email"`               *)
(* or a nil destination, which the decoders and the validator refuse.      *)
(***************************************************************************)
ZeroForm(kind) == [kind |-> kind, Name |-> EmptyString, Email |-> EmptyString]

fieldName  == <<"N","a","m","e">>
fieldEmail == <<"E","m","a","i","l">>
tagRequired == <<"r","e","q","u","i","r","e","d">>
tagEmail    == <<"e","m","a","i","l">>

ValidEmails == {Str("john@example.com"), Str("alice@example.com")}

\* form.Decoder.Decode(dst, values) and json.Decoder.Decode(dst) on TestForm:
\* a field takes the first value under its name; the error is the decoder's
Decode(dst, values) ==
    IF dst.kind # "struct"
    THEN [dst |-> dst, err |-> "InvalidDecoderError"]
    ELSE [dst |-> [kind  |-> dst.kind,
                   Name  |-> IF "name" \in DOMAIN values /\ Len(values["name"]) > 0
                             THEN values["name"][1] ELSE dst.Name,
                   Email |-> IF "email" \in DOMAIN values /\ Len(values["email"]) > 0
                             THEN values["email"][1] ELSE dst.Email],
          err |-> "nil"]

\* validator.Validate.Struct(dst): nil, ValidationErrors (one FieldError per
\* violated field, in field order), or InvalidValidationError
ValidatorStruct(dst) ==
    IF dst.kind # "struct" THEN Err("InvalidValidationError", "", 0, <<>>)
    ELSE LET n == IF dst.Name = EmptyString
                  THEN << [Field |-> fieldName, Tag |-> tagRequired] >> ELSE <<>>
             e == IF dst.Email = EmptyString
                  THEN << [Field |-> fieldEmail, Tag |-> tagRequired] >>
                  ELSE IF dst.Email \notin ValidEmails
                  THEN << [Field |-> fieldEmail, Tag |-> tagEmail] >>
                  ELSE <<>>
         IN  IF n \o e = <<>> THEN NilErr
             ELSE Err("ValidationErrors", "", 0, n \o e)

\* fmt.Sprintf("%s is %s", field, ve.Tag())
SprintfIs(field, tag) == field \o <<" ","i","s"," ">> \o tag

\* the key taken as the validator spells the field
fieldKeyAsSpelled(ve) == ve.Field

\* the key validateAndRespond files a FieldError under
fieldKey(ve) == ToLower(ve.Field)

\* the loop of validateAndRespond over validationErrs
RECURSIVE fieldErrorsOf(_, _, _)
fieldErrorsOf(validationErrs, messages, fieldErrors) ==
    IF validationErrs = <<>> THEN fieldErrors
    ELSE LET ve    == Head(validationErrs)
             field == fieldKey(ve)
             msg   == IF field \in DOMAIN messages THEN messages[field]
                      ELSE SprintfIs(field, ve.Tag)
         IN  fieldErrorsOf(Tail(validationErrs), messages,
                           MapSet(fieldErrors, field, msg))

\* validateAndRespond(w, dst): the response and the error returned
validateAndRespond(messages, w, dst) ==
    LET err == ValidatorStruct(dst)
    IN  IF err.kind = "nil" THEN [w |-> w, err |-> NilErr]
        ELSE IF err.kind = "ValidationErrors"
        THEN [w |-> [status           |-> IF w.writeHeaderCalls = 0 THEN 400
                                          ELSE w.status,
                     contentType      |-> "application/json",
                     writeHeaderCalls |-> w.writeHeaderCalls + 1,
                     body |-> [kind    |-> "json",
                               message |-> Str("Validation failed"),
                               fields  |-> fieldErrorsOf(err.fields, messages,
                                                         NoFields)]],
              err |-> err]
        ELSE [w |-> httpError(w, "Validation failed", 400), err |-> err]

(***************************************************************************)
(* Requests.  A body is JSON text, an URL-encoded form or a multipart      *)
(* stream: its parts in order, then end-of-parts ("EOF") or a broken       *)
(* stream ("err").  Clients send the body their header declares.           *)
(***************************************************************************)
Bytes(len, fill) == [len |-> len, fill |-> fill]

Scalar(name, text) ==
    [FormName |-> name, FileName |-> "", ContentType |-> "",
     Text |-> text, Content |-> Bytes(0, 0), ReadErr |-> FALSE]

File(name, filename, ctype, content, readErr) ==
    [FormName |-> name, FileName |-> filename, ContentType |-> ctype,
     Text |-> EmptyString, Content |-> content, ReadErr |-> readErr]

ScalarParts ==
    { Scalar("name", Str("Alice")), Scalar("name", EmptyString),
      Scalar("email", Str("alice@example.com")) }

\* "PNG IMAGE CONTENT" of the tests is 17 bytes long; report.pdf is uploaded
\* under the name of the record's Name field, which then takes its digest
FileParts ==
    { File("avatar", "avatar.png", "image/png", Bytes(17, 80), FALSE),
      File("avatar", "exact.png", "image/png", Bytes(maxFileSize, 1), FALSE),
      File("avatar", "over.png", "image/png", Bytes(maxFileSize + 1, 1), FALSE),
      File("avatar", "huge.png", "image/png", Bytes(maxFileSize + 2, 1), FALSE),
      File("avatar", "photo.jpg", "image/jpeg", Bytes(1, 7), FALSE),
      File("name", "report.pdf", "application/pdf", Bytes(17, 80), FALSE),
      File("avatar", "notes.txt", "text/plain", Bytes(1, 7), FALSE),
      File("avatar", "AVATAR.PNG", "IMAGE/PNG", Bytes(17, 80), FALSE),
      File("avatar", "cut.png", "image/png", Bytes(3, 80), TRUE) }

Parts == ScalarParts \cup FileParts

PartSeqs(S) == UNION { [1..n -> S] : n \in 0..MaxParts }

Body(kind, ok, values, parts, term) ==
    [kind |-> kind, ok |-> ok, values |-> values, parts |-> parts, term |-> term]

\* what a JSON object or a form carries under name and email
NameTexts  == {EmptyString, Str("John")}
EmailTexts == {Str("invalid-email"), Str("john@example.com")}

FieldValues ==
    { [k \in {"name", "email"} |->
         IF k = "name" THEN <<n>> ELSE <<e>>] : n \in NameTexts, e \in EmailTexts }
    \cup { [k \in {"name"} |-> <<n>>] : n \in NameTexts }
    \cup { EmptyValues }

JSONBodies ==
    { Body("json", TRUE, v, <<>>, "EOF") : v \in FieldValues }
    \cup { Body("json", FALSE, EmptyValues, <<>>, "EOF") }

FormBodies ==
    { Body("form", TRUE, v, <<>>, "EOF") : v \in FieldValues }
    \cup { Body("form", FALSE, EmptyValues, <<>>, "EOF") }

MultipartBodies(S) ==
    { Body("multipart", TRUE, EmptyValues, ps, t) :
        ps \in PartSeqs(S), t \in {"EOF", "err"} }

TestMultipart ==
    Body("multipart", TRUE, EmptyValues,
         << Scalar("name", Str("Alice")),
            File("avatar", "avatar.png", "image/png", Bytes(17, 80), FALSE) >>,
         "EOF")
\* two files uploaded under one field name, then the e-mail address
TwoFilesOneName ==
    Body("multipart", TRUE, EmptyValues,
         << File("name", "report.pdf", "application/pdf", Bytes(17, 80), FALSE),
            File("name", "photo.jpg", "image/jpeg", Bytes(1, 7), FALSE),
            Scalar("email", Str("alice@example.com")) >>,
         "EOF")
TestJSON ==
    Body("json", TRUE,
         [k \in {"name", "email"} |->
            IF k = "name" THEN <<Str("John")>> ELSE <<Str("john@example.com")>>],
         <<>>, "EOF")

Request(contentType, body, dst) ==
    [ContentType |-> contentType, Body |-> body, Dst |-> dst]

\* header values the router does not know, each with a body of the kind the
\* client meant
UnsupportedRequests ==
    { Request(<<>>, TestJSON, "struct"),
      Request(textPlain, TestJSON, "struct"),
      Request(MixedJSON, TestJSON, "struct"),
      Request(MixedFormUrlencoded, Body("form", TRUE, TestJSON.values, <<>>, "EOF"),
              "struct"),
      Request(UpperMultipart, TestMultipart, "struct"),
      Request(Tail(applicationJSON), TestJSON, "struct") }

Requests ==
    { Request(multipartFormData \o boundaryX, b, "struct") :
        b \in MultipartBodies(Parts) }
    \cup { Request(multipartFormData \o boundaryY, TestMultipart, d) :
             d \in {"struct", "nil"} }
    \cup { Request(multipartFormData, TestMultipart, "struct") }
    \cup { Request(multipartFormData \o boundaryX, TwoFilesOneName, "struct") }
    \cup { Request(applicationJSON \o s, b, d) :
             s \in {<<>>, charsetUTF8}, b \in JSONBodies, d \in {"struct", "nil"} }
    \cup { Request(applicationFormUrlencoded \o s, b, d) :
             s \in {<<>>, charsetUTF8}, b \in FormBodies, d \in {"struct", "nil"} }
    \cup UnsupportedRequests

\* the requests two handlers serve at the same time
ConcurrentParts ==
    { File("avatar", "avatar.png", "image/png", Bytes(17, 80), FALSE),
      File("name", "report.pdf", "application/pdf", Bytes(17, 80), FALSE),
      Scalar("email", Str("alice@example.com")) }

ConcurrentRequests ==
    { Request(multipartFormData \o boundaryX,
              Body("multipart", TRUE, EmptyValues, ps, "EOF"), "struct") :
        ps \in PartSeqs(ConcurrentParts) }
    \cup { Request(multipartFormData \o boundaryX,
                   Body("multipart", TRUE, EmptyValues, <<>>, "err"), "struct") }
    \cup { Request(applicationJSON, TestJSON, "struct"),
           Request(applicationFormUrlencoded,
                   Body("form", TRUE, TestJSON.values, <<>>, "EOF"), "struct"),
           Request(textPlain, TestJSON, "struct") }

(***************************************************************************)
(* State.                                                                  *)
(*   cfg      the shared Config: FieldErrorMessages and Files of the       *)
(*            package, AllowedMIMETypes as the tests' setupParser sets it  *)
(*   h        per handler: the call in progress (its position pc, request, *)
(*            ResponseWriter, destination, locals of parseMultipart), the  *)
(*            error it returned and the files its caller then read         *)
(*   crashed  the runtime ended the process (concurrent map writes)        *)
(***************************************************************************)
VARIABLES cfg, h, crashed

vars == <<cfg, h, crashed>>

Handlers == {"h1", "h2"}
Main == "h1"

\* a nil map and make(map[string]*UploadedFile)
NilFiles  == [isNil |-> TRUE,  entries |-> [k \in {} |-> 0]]
MakeFiles == [isNil |-> FALSE, entries |-> [k \in {} |-> 0]]

testMessages ==
    [k \in {<<"n","a","m","e">>, <<"e","m","a","i","l">>} |->
        IF k = <<"n","a","m","e">> THEN Str("Name is required")
        ELSE Str("Invalid email address")]

\* the Config of the tests' setupParser and the Config of the README's main,
\* which sets the decoder and the validator alone
Configs ==
    { [FieldErrorMessages |-> testMessages, AllowedMIMETypes |-> <<"image/png">>,
       Files |-> NilFiles],
      [FieldErrorMessages |-> NoFields, AllowedMIMETypes |-> <<>>,
       Files |-> NilFiles] }

NoPart == Scalar("", EmptyString)

\* the frame of a call: w, r, dst and the locals, before the first statement
Frame(pc, r) ==
    [pc          |-> pc,
     r           |-> r,
     w           |-> NewRecorder,
     dst         |-> ZeroForm(r.Dst),
     err         |-> NilErr,
     values      |-> EmptyValues,
     next        |-> 1,
     part        |-> NoPart,
     fetchErr    |-> "nil",
     decodeErr   |-> "nil",
     contentType |-> "",
     fileBuf     |-> Bytes(0, 0),
     ran         |-> {},
     bodyRead    |-> FALSE,
     decodes     |-> 0,
     validations |-> 0,
     seen        |-> NilFiles]

Idle == Frame("idle", Request(<<>>, TestJSON, "struct"))

Init ==
    /\ cfg \in Configs
    /\ h = [p \in Handlers |-> Idle]
    /\ crashed = FALSE

(***************************************************************************)
(* Actions: one per function of the package, parseMultipart cut at its     *)
(* loop (one step fetches a part, one reads and stores a file part).       *)
(***************************************************************************)
Returned(f, w, err) == [f EXCEPT !.pc = "returned", !.w = w, !.err = err]

\* a handler receives a request and calls cfg.ParseFormBasedOnContentType
\* with a fresh ResponseWriter and destination
Call(p, requests) ==
    /\ ~crashed
    /\ h[p].pc = "idle"
    /\ \E r \in requests :
          h' = [h EXCEPT ![p] = Frame("ParseFormBasedOnContentType", r)]
    /\ UNCHANGED <<cfg, crashed>>

ParseFormBasedOnContentType(p) ==
    /\ ~crashed
    /\ h[p].pc = "ParseFormBasedOnContentType"
    /\ LET f     == h[p]
           route == switchContentType(f.r.ContentType)
       IN  h' = [h EXCEPT ![p] =
                   IF route = "default"
                   THEN Returned(f, httpError(f.w, "Unsupported Content-Type", 415),
                                 Err("unsupported content type", "", 0, <<>>))
                   ELSE [f EXCEPT !.pc = route]]
    /\ UNCHANGED <<cfg, crashed>>

parseJSON(p) ==
    /\ ~crashed
    /\ h[p].pc = "parseJSON"
    /\ LET f   == [h[p] EXCEPT !.ran = @ \cup {"parseJSON"}, !.bodyRead = TRUE]
           bad == f.r.Body.kind # "json" \/ ~f.r.Body.ok \/ f.dst.kind # "struct"
           d   == Decode(f.dst, f.r.Body.values)
           v   == validateAndRespond(cfg.FieldErrorMessages, f.w, d.dst)
       IN  h' = [h EXCEPT ![p] =
                   IF bad
                   THEN Returned(f, httpError(f.w, "Invalid JSON body", 400),
                                 Err("json", "", 0, <<>>))
                   ELSE Returned([f EXCEPT !.dst = d.dst,
                                           !.validations = @ + 1], v.w, v.err)]
    /\ UNCHANGED <<cfg, crashed>>

parseURLEncoded(p) ==
    /\ ~crashed
    /\ h[p].pc = "parseURLEncoded"
    /\ LET f   == [h[p] EXCEPT !.ran = @ \cup {"parseURLEncoded"}, !.bodyRead = TRUE]
           bad == f.r.Body.kind # "form" \/ ~f.r.Body.ok
           d   == Decode(f.dst, f.r.Body.values)
           v   == validateAndRespond(cfg.FieldErrorMessages, f.w, d.dst)
       IN  h' = [h EXCEPT ![p] =
                   IF bad
                   THEN Returned(f, httpError(f.w, "Can't parse form", 400),
                                 Err("form", "", 0, <<>>))
                   ELSE Returned([f EXCEPT !.dst = d.dst, !.decodes = @ + 1,
                                           !.decodeErr = d.err,
                                           !.validations = @ + 1], v.w, v.err)]
    /\ UNCHANGED <<cfg, crashed>>

\* parseMultipart up to its loop: the reader, values and cfg.Files
parseMultipart(p) ==
    /\ ~crashed
    /\ h[p].pc = "parseMultipart"
    /\ LET f == [h[p] EXCEPT !.ran = @ \cup {"parseMultipart"}]
       IN  IF ~MultipartReaderOK(f.r.ContentType)
           THEN /\ h' = [h EXCEPT ![p] =
                           Returned(f, httpError(f.w, "Can't parse multipart", 400),
                                    Err("multipart", "", 0, <<>>))]
                /\ UNCHANGED cfg
           ELSE /\ h' = [h EXCEPT ![p] = [f EXCEPT !.pc = "NextPart",
                                                   !.values = EmptyValues]]
                /\ cfg' = [cfg EXCEPT !.Files = MakeFiles]
    /\ UNCHANGED crashed

\* one turn of the loop up to the MIME check: mr.NextPart(), a scalar part
\* read into values, a file part's declared type tested
NextPart(p) ==
    /\ ~crashed
    /\ h[p].pc = "NextPart"
    /\ LET f     == [h[p] EXCEPT !.bodyRead = TRUE]
           parts == f.r.Body.parts
       IN  h' = [h EXCEPT ![p] =
             IF f.r.Body.kind # "multipart"
                \/ (f.next > Len(parts) /\ f.r.Body.term # "EOF")
             THEN \* err is not io.EOF and part is nil: part.FormName() panics
                  [f EXCEPT !.pc = "panicked", !.fetchErr = "err"]
             ELSE IF f.next > Len(parts)
             THEN [f EXCEPT !.pc = "Decode", !.fetchErr = "EOF"]
             ELSE LET part == parts[f.next]
                      g    == [f EXCEPT !.next = @ + 1, !.part = part,
                                        !.fileBuf = Bytes(0, 0)]
                  IN  IF part.FileName = ""
                      THEN [g EXCEPT !.values = Add(@, part.FormName, part.Text)]
                      ELSE IF ~isAllowedContentType(part.ContentType)
                      THEN Returned([g EXCEPT !.contentType = part.ContentType],
                                    httpError(g.w, "Unsupported file type", 400),
                                    Err("unsupported file type", part.ContentType,
                                        0, <<>>))
                      ELSE [g EXCEPT !.pc = "CopyN",
                                     !.contentType = part.ContentType]]
    /\ UNCHANGED <<cfg, crashed>>

\* whether the file part a handler is about to read gets stored
Stores(f) ==
    LET c == CopyN(f.part, maxFileSize + 1)
    IN  c.err \in {"nil", "EOF"} /\ ~tooLarge(c.n)

\* the rest of the turn for a file part: io.CopyN under the cap, the digest,
\* cfg.Files[formName] and values.Add
readFilePart(p) ==
    /\ ~crashed
    /\ h[p].pc = "CopyN"
    /\ LET f == h[p]
           c == CopyN(f.part, maxFileSize + 1)
           g == [f EXCEPT !.fileBuf = c.buf]
       IN  IF c.err \notin {"nil", "EOF"}
           THEN /\ h' = [h EXCEPT ![p] =
                           Returned(g, httpError(g.w, "Error reading file", 500),
                                    Err("read", "", 0, <<>>))]
                /\ UNCHANGED cfg
           ELSE IF tooLarge(c.n)
           THEN /\ h' = [h EXCEPT ![p] =
                           Returned(g, httpError(g.w, "File too large", 413),
                                    Err("file too large", "", c.n, <<>>))]
                /\ UNCHANGED cfg
           ELSE LET content  == c.buf
                    hash     == Sum256(content)
                    formName == f.part.FormName
                IN  /\ cfg' = [cfg EXCEPT !.Files =
                                 [isNil   |-> FALSE,
                                  entries |-> MapSet(cfg.Files.entries, formName,
                                                UploadedFile(f.part, f.contentType,
                                                             content, hash))]]
                    /\ h' = [h EXCEPT ![p] =
                               [g EXCEPT !.pc = "NextPart",
                                         !.values = Add(@, formName,
                                                        SprintfHex(hash))]]
    /\ UNCHANGED crashed

\* after the loop with the decoder's error tested: a failed Decode answers
\* 400 and returns its error, validation not run
decodeAndValidateStrict(p) ==
    /\ ~crashed
    /\ h[p].pc = "Decode"
    /\ LET f == h[p]
           d == Decode(f.dst, f.values)
           v == validateAndRespond(cfg.FieldErrorMessages, f.w, d.dst)
           g == [f EXCEPT !.dst = d.dst, !.decodes = @ + 1, !.decodeErr = d.err]
       IN  h' = [h EXCEPT ![p] =
                   IF d.err # "nil"
                   THEN Returned(g, httpError(g.w, "Can't decode form", 400),
                                 Err(d.err, "", 0, <<>>))
                   ELSE Returned([g EXCEPT !.validations = @ + 1], v.w, v.err)]
    /\ UNCHANGED <<cfg, crashed>>

\* after the loop: cfg.Decoder.Decode(dst, values), error dropped, and
\* validateAndRespond
decodeAndValidate(p) ==
    /\ ~crashed
    /\ h[p].pc = "Decode"
    /\ LET f == h[p]
           d == Decode(f.dst, f.values)
           v == validateAndRespond(cfg.FieldErrorMessages, f.w, d.dst)
       IN  h' = [h EXCEPT ![p] =
                   Returned([f EXCEPT !.dst = d.dst, !.decodes = @ + 1,
                                      !.decodeErr = d.err,
                                      !.validations = @ + 1], v.w, v.err)]
    /\ UNCHANGED <<cfg, crashed>>

\* the caller has the error and reads cfg.Files
Return(p) ==
    /\ ~crashed
    /\ h[p].pc = "returned"
    /\ h' = [h EXCEPT ![p] = [@ EXCEPT !.pc = "done", !.seen = cfg.Files]]
    /\ UNCHANGED <<cfg, crashed>>

\* the handler function ends, by return or by the panic the server recovers
\* from; its frame is gone
handlerEnds(p) ==
    /\ ~crashed
    /\ h[p].pc \in {"done", "panicked"}
    /\ h' = [h EXCEPT ![p] = Idle]
    /\ UNCHANGED <<cfg, crashed>>

\* two handlers assign into the one map of cfg.Files at the same time: the Go
\* runtime may end the process ("fatal error: concurrent map writes")
concurrentMapWrites ==
    /\ ~crashed
    /\ \E p, q \in Handlers :
          /\ p # q
          /\ h[p].pc = "CopyN" /\ Stores(h[p])
          /\ h[q].pc = "CopyN" /\ Stores(h[q])
    /\ crashed' = TRUE
    /\ UNCHANGED <<cfg, h>>

\* one handler, one request after the other
Next ==
    \/ Call(Main, Requests)
    \/ ParseFormBasedOnContentType(Main)
    \/ parseJSON(Main)
    \/ parseURLEncoded(Main)
    \/ parseMultipart(Main)
    \/ NextPart(Main)
    \/ readFilePart(Main)
    \/ decodeAndValidate(Main)
    \/ Return(Main)
    \/ handlerEnds(Main)

Spec == Init /\ [][Next]_vars

\* the handlers of a server, each in its own goroutine, on the one Config
NextConcurrent ==
    \/ \E p \in Handlers : Call(p, ConcurrentRequests)
    \/ \E p \in Handlers : ParseFormBasedOnContentType(p)
    \/ \E p \in Handlers : parseJSON(p)
    \/ \E p \in Handlers : parseURLEncoded(p)
    \/ \E p \in Handlers : parseMultipart(p)
    \/ \E p \in Handlers : NextPart(p)
    \/ \E p \in Handlers : readFilePart(p)
    \/ \E p \in Handlers : decodeAndValidate(p)
    \/ \E p \in Handlers : Return(p)
    \/ \E p \in Handlers : handlerEnds(p)
    \/ concurrentMapWrites

SpecConcurrent == Init /\ [][NextConcurrent]_vars

(***************************************************************************)
(* Properties.                                                             *)
(***************************************************************************)
\* the call of handler p has returned to its caller
HasReturned(p) == h[p].pc \in {"returned", "done"}

\* the call of handler p is past the router
Dispatched(p) ==
    h[p].pc \notin {"idle", "ParseFormBasedOnContentType"}

IsFile(part) == part.FileName # ""

\* C1: the router selects exactly one strategy by the prefix of the
\* Content-Type header: multipart/form-data runs multipart extraction,
\* application/x-www-form-urlencoded URL-form extraction, application/json
\* JSON extraction; any other value, the empty one included, is answered 415
\* with an error and the body is not read.
C1_RouterSelectsStrategy ==
    \A p \in Handlers :
        LET f  == h[p]
            ct == f.r.ContentType
            known == \/ HasPrefix(ct, multipartFormData)
                     \/ HasPrefix(ct, applicationFormUrlencoded)
                     \/ HasPrefix(ct, applicationJSON)
        IN  /\ Dispatched(p) /\ HasPrefix(ct, multipartFormData)
                => /\ f.ran \subseteq {"parseMultipart"}
                   /\ f.pc # "parseMultipart" => f.ran = {"parseMultipart"}
            /\ Dispatched(p) /\ HasPrefix(ct, applicationFormUrlencoded)
                => /\ f.ran \subseteq {"parseURLEncoded"}
                   /\ HasReturned(p) => f.ran = {"parseURLEncoded"}
            /\ Dispatched(p) /\ HasPrefix(ct, applicationJSON)
                => /\ f.ran \subseteq {"parseJSON"}
                   /\ HasReturned(p) => f.ran = {"parseJSON"}
            /\ Dispatched(p) /\ ~known
                => /\ HasReturned(p)
                   /\ f.ran = {}
                   /\ f.w.status = 415
                   /\ f.err.kind # "nil"
                   /\ ~f.bodyRead

C1_Witness ==
    /\ h[Main].pc = "done"
    /\ h[Main].r.ContentType = multipartFormData \o boundaryY
    /\ h[Main].ran = {"parseMultipart"}
    /\ h[Main].bodyRead

\* C2: the match is case-insensitive: a header that differs from a supported
\* type only in letter case is routed as its lower-case form is and is not
\* answered 415.
C2_CaseInsensitiveMatch ==
    \A p \in Handlers :
        LET f     == h[p]
            lower == ToLower(f.r.ContentType)
        IN  HasReturned(p) /\ switchContentType(lower) # "default"
                => /\ f.w.status # 415
                   /\ f.ran = {switchContentType(lower)}

\* C3: the size cap is exact: a file part of exactly maxFileSize bytes is
\* accepted without a too-large error, and a file part of maxFileSize + 1 or
\* more bytes ends the parse with status 413 and an error.
\* (the part read is the last one fetched, its type having passed the MIME test)
PartRead(p) ==
    /\ IsFile(h[p].part)
    /\ h[p].pc \in {"NextPart", "Decode", "returned", "done"}
    /\ h[p].err.kind # "unsupported file type"

C3_SizeCapBoundary ==
    \A p \in Handlers :
        LET f == h[p]
        IN  PartRead(p) =>
              /\ f.part.Content.len = maxFileSize /\ ~f.part.ReadErr
                    => /\ f.err.kind \notin {"file too large", "read"}
                       /\ f.w.status \notin {413, 500}
                       /\ f.fileBuf.len = maxFileSize
              /\ f.part.Content.len >= maxFileSize + 1
                    => /\ HasReturned(p)
                       /\ f.err.kind = "file too large"
                       /\ f.w.status = 413

C3_Witness ==
    /\ h[Main].pc = "NextPart"
    /\ IsFile(h[Main].part)
    /\ h[Main].part.Content.len = maxFileSize
    /\ h[Main].part.FormName \in DOMAIN cfg.Files.entries
    /\ cfg.Files.entries[h[Main].part.FormName].Content.len = maxFileSize

\* C4: a file part whose declared type is not in the allow-list ends the
\* parse with status 400 and an error naming the type; no later part is
\* consumed, neither the decoder nor the validator runs, and the files map
\* has no entry for the part.
C4_DisallowedTypeAborts ==
    \A p \in Handlers :
        LET f == h[p]
        IN  /\ Dispatched(p) /\ IsFile(f.part)
               /\ ~(\E i \in 1..Len(allowed) : allowed[i] = f.part.ContentType)
                 => /\ HasReturned(p)
                    /\ f.w.status = 400
                    /\ f.err.kind = "unsupported file type"
                    /\ f.err.ctype = f.part.ContentType
                    /\ f.part = f.r.Body.parts[f.next - 1]
                    /\ f.decodes = 0 /\ f.validations = 0
                    /\ \A k \in DOMAIN cfg.Files.entries :
                          \/ cfg.Files.entries[k].Filename # f.part.FileName
                          \/ cfg.Files.entries[k].ContentType # f.part.ContentType

C4_Witness ==
    /\ h[Main].pc = "done"
    /\ h[Main].err.kind = "unsupported file type"
    /\ h[Main].err.ctype = "IMAGE/PNG"
    /\ h[Main].next = 2
    /\ Len(h[Main].r.Body.parts) = 2

\* C5: the MIME policy is the caller-configured allow-list alone: a file part
\* is accepted if and only if its declared type is a member of the allow-list
\* set on the Config; with an empty allow-list every upload is rejected.
InConfiguredAllowList(contentType) ==
    \E i \in 1..Len(cfg.AllowedMIMETypes) : cfg.AllowedMIMETypes[i] = contentType

C5_ConfiguredAllowListDecides ==
    \A p \in Handlers :
        LET f == h[p]
        IN  Dispatched(p) /\ IsFile(f.part)
              => (f.err.kind = "unsupported file type"
                    <=> ~InConfiguredAllowList(f.part.ContentType))

\* the files a multipart body leaves in the map when every part is accepted:
\* under each name the last file part of that name
RECURSIVE FilesOf(_)
FilesOf(parts) ==
    IF parts = <<>> THEN [k \in {} |-> 0]
    ELSE LET front == FilesOf(SubSeq(parts, 1, Len(parts) - 1))
             last  == parts[Len(parts)]
         IN  IF IsFile(last)
             THEN MapSet(front, last.FormName,
                         [Filename    |-> last.FileName,
                          ContentType |-> last.ContentType,
                          Content     |-> last.Content,
                          Hash        |-> SprintfHex(Sum256(last.Content))])
             ELSE front

\* C6: after a successful multipart parse every UploadedFile of the files map
\* has Hash equal to the hex digest of its own Content, and its Content,
\* Filename and ContentType are those of the part it was built from.
C6_DigestRoundTrip ==
    \A p \in Handlers :
        LET f == h[p]
        IN  f.pc = "returned" /\ f.err.kind = "nil" /\ f.ran = {"parseMultipart"}
              => /\ \A k \in DOMAIN cfg.Files.entries :
                      cfg.Files.entries[k].Hash =
                          SprintfHex(Sum256(cfg.Files.entries[k].Content))
                 /\ cfg.Files.entries = FilesOf(f.r.Body.parts)

C6_Witness ==
    /\ h[Main].pc = "returned"
    /\ h[Main].err.kind = "nil"
    /\ h[Main].ran = {"parseMultipart"}
    /\ "name" \in DOMAIN cfg.Files.entries
    /\ cfg.Files.entries["name"].Content = Bytes(17, 80)

\* C7: when validation fails with a structured set of field violations the
\* response is 400, Content-Type application/json, a JSON body with message
\* "Validation failed" and a fields object with one key, the lower-cased
\* field name, for every violated field, and the validation error is
\* returned.
ViolatedKeys(dst) ==
    (IF dst.Name = EmptyString THEN {<<"n","a","m","e">>} ELSE {})
    \cup (IF dst.Email \notin ValidEmails THEN {<<"e","m","a","i","l">>} ELSE {})

C7_ValidationFailureResponse ==
    \A p \in Handlers :
        LET f == h[p]
        IN  /\ HasReturned(p) /\ f.validations > 0 /\ f.dst.kind = "struct"
               /\ ViolatedKeys(f.dst) # {}
              => /\ f.w.status = 400
                 /\ f.w.writeHeaderCalls = 1
                 /\ f.w.contentType = "application/json"
                 /\ f.w.body.kind = "json"
                 /\ f.w.body.message = Str("Validation failed")
                 /\ DOMAIN f.w.body.fields = ViolatedKeys(f.dst)
                 /\ f.err.kind = "ValidationErrors"
                 /\ Len(f.err.fields) = Cardinality(ViolatedKeys(f.dst))

C7_Witness ==
    /\ h[Main].pc = "returned"
    /\ h[Main].ran = {"parseJSON"}
    /\ h[Main].dst.Name = EmptyString
    /\ h[Main].dst.Email = Str("invalid-email")
    /\ h[Main].w.status = 400
    /\ DOMAIN h[Main].w.body.fields = {<<"n","a","m","e">>, <<"e","m","a","i","l">>}

\* C8: each parse call resets the files map: after a call on a JSON or
\* URL-encoded request the files map of the Config is empty or absent,
\* whatever calls were made before on the same Config.
C8_FilesResetByEveryCall ==
    \A p \in Handlers :
        HasReturned(p) /\ h[p].ran \in {{"parseJSON"}, {"parseURLEncoded"}}
            => DOMAIN cfg.Files.entries = {}

\* C9: no partial results: when a multipart parse fails at a part, the files
\* map the caller sees holds no file accepted from an earlier part of the
\* request, and the destination record has not been populated.
C9_NoPartialResults ==
    \A p \in Handlers :
        LET f == h[p]
        IN  /\ HasReturned(p) /\ f.ran = {"parseMultipart"}
               /\ f.err.kind \in {"unsupported file type", "file too large", "read"}
              => /\ DOMAIN cfg.Files.entries = {}
                 /\ f.dst = ZeroForm(f.r.Dst)

\* C10: two multipart parses interleaved on one Config do not corrupt each
\* other: the files a caller reads after its own call returned successfully
\* are exactly the files of its own request.
C10_CallerSeesItsOwnFiles ==
    \A p \in Handlers :
        LET f == h[p]
        IN  f.pc = "done" /\ f.err.kind = "nil" /\ f.ran = {"parseMultipart"}
              => f.seen.entries = FilesOf(f.r.Body.parts)

\* C11: response and error agree on every path: a call returns a non-nil
\* error if and only if it has written a response; it then wrote a status
\* exactly once, one of 415, 400, 413, 500; a call that returns nil left the
\* response untouched (no status, header or body).
C11_ResponseErrorAgreement ==
    \A p \in Handlers :
        LET f == h[p]
        IN  /\ Dispatched(p) => f.w.writeHeaderCalls <= 1
            /\ HasReturned(p) =>
                 /\ f.err.kind # "nil" <=> f.w # NewRecorder
                 /\ f.err.kind # "nil"
                      => /\ f.w.writeHeaderCalls = 1
                         /\ f.w.status \in {415, 400, 413, 500}
                         /\ f.w.body.kind # "none"
                 /\ f.err.kind = "nil"
                      => /\ f.w.status = 0
                         /\ f.w.contentType = ""
                         /\ f.w.body.kind = "none"

C11_Witness ==
    /\ h[Main].pc = "returned"
    /\ h[Main].ran = {"parseMultipart"}
    /\ h[Main].err.kind = "read"
    /\ h[Main].w.status = 500
    /\ h[Main].w.writeHeaderCalls = 1

\* the parts of a body the loop of parseMultipart has taken in so far, and
\* those among them that carry a given field name, in arrival order
Consumed(f) == SubSeq(f.r.Body.parts, 1, f.next - 1)

Named(parts, name) ==
    LET IsNamed(part) == part.FormName = name
    IN  SelectSeq(parts, IsNamed)

\* the multimap of handler p holds all the parts taken in: the handler is
\* between two turns of the loop, or past the loop
ValuesComplete(p) ==
    /\ h[p].ran = {"parseMultipart"}
    /\ \/ h[p].pc \in {"NextPart", "Decode"}
       \/ HasReturned(p) /\ h[p].decodes = 1

\* C12: scalar parts with the same field name are all preserved: the multimap
\* handed to the field mapper holds, under each field name, one value per
\* part of that name, the text of every scalar part at its place in arrival
\* order; a later part never overwrites an earlier one.
C12_SameNameScalarsPreserved ==
    \A p \in Handlers :
        LET f == h[p]
        IN  ValuesComplete(p) =>
              /\ DOMAIN f.values =
                    { Consumed(f)[i].FormName : i \in 1..Len(Consumed(f)) }
              /\ \A k \in DOMAIN f.values :
                    LET named == Named(Consumed(f), k)
                    IN  /\ Len(f.values[k]) = Len(named)
                        /\ \A i \in 1..Len(named) :
                              ~IsFile(named[i]) => f.values[k][i] = named[i].Text

C12_Witness ==
    /\ h[Main].pc = "Decode"
    /\ h[Main].r.Body.parts =
          << Scalar("name", Str("Alice")), Scalar("name", EmptyString) >>
    /\ h[Main].values["name"] = << Str("Alice"), EmptyString >>

\* C13: part enumeration ends normally only on end-of-parts: when fetching
\* the next part reports any other error, parseMultipart stops, answers 500,
\* returns a non-nil error and runs neither the field mapper nor validation.
C13_FetchErrorIsInternalError ==
    \A p \in Handlers :
        LET f == h[p]
        IN  f.fetchErr = "err"
              => /\ HasReturned(p)
                 /\ f.w.status = 500
                 /\ f.err.kind # "nil"
                 /\ f.decodes = 0 /\ f.validations = 0

\* C14: bounded buffering: at every step of multipart extraction the buffer
\* of the file part being read holds at most maxFileSize + 1 bytes, whatever
\* the length of the part; an oversized part is rejected when maxFileSize + 1
\* bytes of it have been read, the rest never read into memory.
C14_BoundedBuffering ==
    \A p \in Handlers :
        LET f == h[p]
        IN  /\ f.fileBuf.len <= maxFileSize + 1
            /\ PartRead(p) /\ f.part.Content.len > maxFileSize
                 => /\ f.fileBuf.len = maxFileSize + 1
                    /\ f.err.kind = "file too large"
                    /\ f.err.n = maxFileSize + 1

C14_Witness ==
    /\ h[Main].pc = "returned"
    /\ h[Main].part.Content.len = maxFileSize + 2
    /\ h[Main].fileBuf.len = maxFileSize + 1
    /\ h[Main].w.status = 413

\* C15: field-mapper errors never decide the outcome: on the URL-form and the
\* multipart path an error of cfg.Decoder.Decode is discarded, validation
\* runs on the record exactly once, and the error returned and the response
\* written are the ones validation alone gives.
C15_DecodeErrorDiscarded ==
    \A p \in Handlers :
        LET f == h[p]
            v == validateAndRespond(cfg.FieldErrorMessages, NewRecorder, f.dst)
        IN  HasReturned(p) /\ f.decodeErr # "nil"
              => /\ f.ran \in {{"parseURLEncoded"}, {"parseMultipart"}}
                 /\ f.decodes = 1
                 /\ f.validations = 1
                 /\ f.err = ValidatorStruct(f.dst)
                 /\ f.err = v.err
                 /\ f.w = v.w

C15_Witness ==
    /\ h[Main].pc = "returned"
    /\ h[Main].ran = {"parseMultipart"}
    /\ h[Main].decodeErr = "InvalidDecoderError"
    /\ h[Main].validations = 1
    /\ h[Main].err.kind = "InvalidValidationError"
    /\ h[Main].w.status = 400

\* the file parts among parts, in arrival order
FileParted(parts) == SelectSeq(parts, IsFile)

\* C16: agreement of the files map and the multimap after a successful
\* multipart parse: every file part has added its hex digest as a value under
\* its field name, so for each field name the values hold the digest of
\* every file part of that name in arrival order, and the files map holds
\* under the name exactly one UploadedFile, that of the last file part of the
\* name, whose Hash is the last digest under the name.
C16_FilesAgreeWithValues ==
    LET f     == h[Main]
        parts == f.r.Body.parts
        names == { parts[i].FormName : i \in 1..Len(parts) }
    IN  f.pc = "returned" /\ f.err.kind = "nil" /\ f.ran = {"parseMultipart"}
          => /\ DOMAIN f.values = names
             /\ \A k \in names :
                  LET named == Named(parts, k)
                  IN  /\ Len(f.values[k]) = Len(named)
                      /\ \A i \in 1..Len(named) :
                           IsFile(named[i])
                             => f.values[k][i] = SprintfHex(Sum256(named[i].Content))
             /\ DOMAIN cfg.Files.entries =
                  { k \in names : FileParted(Named(parts, k)) # <<>> }
             /\ \A k \in DOMAIN cfg.Files.entries :
                  LET files == FileParted(Named(parts, k))
                      last  == files[Len(files)]
                  IN  /\ cfg.Files.entries[k].Filename = last.FileName
                      /\ cfg.Files.entries[k].ContentType = last.ContentType
                      /\ cfg.Files.entries[k].Content = last.Content
                      /\ cfg.Files.entries[k].Hash = SprintfHex(Sum256(last.Content))
                      /\ cfg.Files.entries[k].Hash = f.values[k][Len(f.values[k])]
                           \/ ~IsFile(Named(parts, k)[Len(Named(parts, k))])

C16_Witness ==
    /\ h[Main].pc = "returned"
    /\ h[Main].err.kind = "nil"
    /\ h[Main].r.Body = TwoFilesOneName
    /\ Len(h[Main].values["name"]) = 2
    /\ cfg.Files.entries["name"].Filename = "photo.jpg"
    /\ cfg.Files.entries["name"].Hash = h[Main].values["name"][2]
    /\ cfg.Files.entries["name"].Hash # h[Main].values["name"][1]

====
